---- MODULE Spec2Model ----
(***************************************************************************)
(* State-machine model of telegrambot.py: the answer-key load, the         *)
(* scoring of a free-text submission, the cached and file-backed stats     *)
(* store with its first-attempt policy, the per-user session state and     *)
(* the leaderboard.                                                        *)
(*                                                                         *)
(* A Python str is modelled as the sequence of its characters (one-letter  *)
(* TLA+ strings), a Python dict as the sequence of its (key, value) items  *)
(* in insertion order, and a JSON document by its parsed shape.            *)
(***************************************************************************)
EXTENDS Integers, Sequences, FiniteSets, TLC

\* ---------------------------------------------------------------- bounds
MaxLen == 3
MaxRestarts == 1
MaxTasks == 2

None == "None"

\* the user ids (update.message.from_user.id) that write to the bot
Users == {1, 2}

\* ------------------------------------------------------------ characters
Chars == {"a", "b", "d", "A", " "}

Whitespace == {" "}

KeyStrings == {<<"a">>, <<"b">>, <<"c">>, <<"B", " ">>}

RECURSIVE SeqsUpTo(_, _)
SeqsUpTo(S, n) ==
    IF n = 0 THEN {<<>>}
    ELSE LET shorter == SeqsUpTo(S, n - 1)
         IN  shorter \cup {Append(s, x) : s \in {t \in shorter : Len(t) = n - 1}, x \in S}

Texts == SeqsUpTo(Chars, MaxLen)

AnswerKeys == SeqsUpTo(KeyStrings, MaxLen)

\* str.lower() on one character
Lower(c) ==
    CASE c = "A" -> "a"
      [] c = "B" -> "b"
      [] OTHER -> c

\* str.strip(): drops leading and trailing whitespace
RECURSIVE LStrip(_)
LStrip(s) ==
    IF s # <<>> /\ Head(s) \in Whitespace THEN LStrip(Tail(s)) ELSE s

RECURSIVE RStrip(_)
RStrip(s) ==
    IF s # <<>> /\ s[Len(s)] \in Whitespace THEN RStrip(SubSeq(s, 1, Len(s) - 1)) ELSE s

Strip(s) == RStrip(LStrip(s))

\* list(text): one one-character string per character
ListOfChars(s) == [i \in 1..Len(s) |-> <<s[i]>>]

\* ''.join(answer.split()).lower()
normalize_answer(answer) ==
    LET joined == SelectSeq(answer, LAMBDA c : c \notin Whitespace)
    IN  [i \in 1..Len(joined) |-> Lower(joined[i])]

\* round(): Python 3 rounds an exact half to the even neighbour
RoundHalfEven(num, den) ==
    LET q == num \div den
        r == num % den
    IN  IF 2 * r < den THEN q
        ELSE IF 2 * r > den THEN q + 1
        ELSE IF q % 2 = 0 THEN q ELSE q + 1

calculate_percentage(correct_answers, total_questions) ==
    IF total_questions = 0 THEN 0
    ELSE RoundHalfEven(correct_answers * 100, total_questions)

\* ------------------------------------------------------------ the scoring
\* the for loop of submit_answers, from index i (1-based here, i-1 in Python)
RECURSIVE ScoreLoop(_, _, _, _, _)
ScoreLoop(user_answers, key, i, correct, incorrect) ==
    IF i > Len(user_answers)
    THEN [correct_answers |-> correct, incorrect_answers |-> incorrect]
    ELSE IF i <= Len(key) /\ normalize_answer(user_answers[i]) = normalize_answer(key[i])
         THEN ScoreLoop(user_answers, key, i + 1, correct + 1, incorrect)
         ELSE ScoreLoop(user_answers, key, i + 1, correct,
                        Append(incorrect, <<i, user_answers[i]>>))

\* the loop with the error list holding the normalized answer
RECURSIVE ScoreLoopNormalized(_, _, _, _, _)
ScoreLoopNormalized(user_answers, key, i, correct, incorrect) ==
    IF i > Len(user_answers)
    THEN [correct_answers |-> correct, incorrect_answers |-> incorrect]
    ELSE IF i <= Len(key) /\ normalize_answer(user_answers[i]) = normalize_answer(key[i])
         THEN ScoreLoopNormalized(user_answers, key, i + 1, correct + 1, incorrect)
         ELSE ScoreLoopNormalized(user_answers, key, i + 1, correct,
                                  Append(incorrect, <<i, normalize_answer(user_answers[i])>>))

ScoreNormalized(user_answers, key) == ScoreLoopNormalized(user_answers, key, 1, 0, <<>>)

\* correct_answers and incorrect_answers after the loop
Score(user_answers, key) == ScoreLoop(user_answers, key, 1, 0, <<>>)

LengthCheckAtMost(user_answers, key) == Len(user_answers) <= Len(key)

\* the validation of submit_answers: len(user_answers) != len(ANSWER_KEY) rejects
LengthOk(user_answers, key) == Len(user_answers) = Len(key)

\* ------------------------------------------------------------- Python dict
IntKey(u) == [t |-> "int", v |-> u]

\* the JSON object key json.dump writes for a key, and json.load reads back
StrKey(u) == [t |-> "str", v |-> u]

ToJsonKey(k) == StrKey(k.v)

DictHas(d, k) == \E i \in 1..Len(d) : d[i].k = k

DictGet(d, k) == d[CHOOSE i \in 1..Len(d) : d[i].k = k].v

\* d[k] = v: an existing key keeps its place, a new one goes last
DictSet(d, k, v) ==
    IF DictHas(d, k)
    THEN [i \in 1..Len(d) |-> IF d[i].k = k THEN [k |-> k, v |-> v] ELSE d[i]]
    ELSE Append(d, [k |-> k, v |-> v])

RECURSIVE Sum(_)
Sum(s) == IF s = <<>> THEN 0 ELSE Head(s) + Sum(Tail(s))

\* ------------------------------------------------------ the stats document
\* json.dump({"users": stats}): every key becomes a string, in dict order;
\* two keys that print alike give a repeated member
JsonDumpUsers(stats) == [i \in 1..Len(stats) |-> [k |-> ToJsonKey(stats[i].k), v |-> stats[i].v]]

\* json.load of an object: members in order, a repeated name keeps the last value
RECURSIVE JsonLoadObject(_, _)
JsonLoadObject(members, acc) ==
    IF members = <<>> THEN acc
    ELSE JsonLoadObject(Tail(members), DictSet(acc, Head(members).k, Head(members).v))

FileKinds == {"missing", "badjson", "notobject", "nousers", "ok"}

StatsFile(kind, users) == [kind |-> kind, users |-> users]

\* cached_stats: None, or the dict held
NoneCache == [is_none |-> TRUE, items |-> <<>>]

Cached(d) == [is_none |-> FALSE, items |-> d]

\* load_stats: the new value of cached_stats (which is also what is returned),
\* or the error raised
load_stats(cache, file) ==
    IF ~cache.is_none
    THEN [cache |-> cache, raised |-> FALSE, how |-> "cache"]
    ELSE CASE file.kind = "missing" ->
                [cache |-> Cached(<<>>), raised |-> FALSE, how |-> "default"]
           [] file.kind = "badjson" ->
                [cache |-> Cached(<<>>), raised |-> FALSE, how |-> "default"]
           [] file.kind = "notobject" ->
                \* json.load(file) is a list, str, number or null: .get raises AttributeError
                [cache |-> cache, raised |-> TRUE, how |-> "raised"]
           [] file.kind = "nousers" ->
                [cache |-> Cached(<<>>), raised |-> FALSE, how |-> "file"]
           [] file.kind = "ok" ->
                [cache |-> Cached(JsonLoadObject(file.users, <<>>)), raised |-> FALSE, how |-> "file"]

WriteOutcomes == {"written", "open_fails", "write_fails"}

save_stats_propagating(stats, file, w) ==
    [cache |-> Cached(stats),
     file |-> CASE w = "written" -> StatsFile("ok", JsonDumpUsers(stats))
                [] w = "open_fails" -> file
                [] w = "write_fails" -> StatsFile("badjson", <<>>),
     raised |-> w # "written"]

\* save_stats: the cache is set first; an IOError of the write is logged
save_stats(stats, file, w) ==
    [cache |-> Cached(stats),
     file |-> CASE w = "written" -> StatsFile("ok", JsonDumpUsers(stats))
                [] w = "open_fails" -> file
                [] w = "write_fails" -> StatsFile("badjson", <<>>),
     raised |-> FALSE]

\* to_excel writes the sheet, or raises IOError with the file cut short (an
\* IOError before the file is opened for writing, which leaves the old sheet,
\* is not among the outcomes enumerated)
ExportOutcomes == {"written", "write_fails"}

ExcelRow(item) ==
    [first_name |-> item.v.first_name, last_name |-> item.v.last_name,
     total |-> Sum(item.v.scores)]

ExcelFile(exists, readable, rows) == [exists |-> exists, readable |-> readable, rows |-> rows]

\* save_stats_to_excel: one row per record; an IOError is logged
save_stats_to_excel(stats, excel, x) ==
    IF x = "written"
    THEN ExcelFile(TRUE, TRUE, [i \in 1..Len(stats) |-> ExcelRow(stats[i])])
    ELSE ExcelFile(TRUE, FALSE, <<>>)

\* ----------------------------------------------------- the answer document
\* an element of the "answers" value: a string, or a value of another type
StrElem(str) == [is_str |-> TRUE, s |-> str]

OtherElem == [is_str |-> FALSE, s |-> <<>>]

AnswerFile(kind, answers) == [kind |-> kind, answers |-> answers]

\* kind: missing (no file), badjson, notobject (list, string, number, null at
\* the top), nokey (object without "answers"), notlist ("answers" is no list),
\* list ("answers" is a list of the elements given)
AnswerFiles ==
    {AnswerFile(k, <<>>) : k \in {"missing", "badjson", "notobject", "nokey", "notlist"}}
        \cup {AnswerFile("list", l) :
                l \in SeqsUpTo({StrElem(str) : str \in KeyStrings} \cup {OtherElem}, MaxLen)}

\* load_answer_key: the list returned, or the error raised
load_answer_key(file) ==
    CASE file.kind = "missing" -> [raised |-> FALSE, answers |-> <<>>]
      [] file.kind = "badjson" -> [raised |-> FALSE, answers |-> <<>>]
      [] file.kind = "notobject" ->
            \* data.get raises AttributeError, which no except clause names
            [raised |-> TRUE, answers |-> <<>>]
      [] file.kind = "nokey" -> [raised |-> FALSE, answers |-> <<>>]
      [] file.kind = "notlist" -> [raised |-> FALSE, answers |-> <<>>]
      [] file.kind = "list" ->
            IF \A i \in 1..Len(file.answers) : file.answers[i].is_str
            THEN [raised |-> FALSE,
                  answers |-> [i \in 1..Len(file.answers) |-> file.answers[i].s]]
            ELSE [raised |-> FALSE, answers |-> <<>>]

\* ------------------------------------------------------------ the handlers
States == {"unset", "test_sent", "answers_submitted"}

\* update.message.from_user: first_name, and last_name (None when absent)
Profile(u) ==
    IF u = 1 THEN [first_name |-> "Ann", last_name |-> "Lee"]
    ELSE [first_name |-> "Bob", last_name |-> None]

\* the texts the users send (a text message is never empty)
Messages == {<<"a">>, <<" ", "A", "b", " ">>, <<"a", "d">>}

\* the keys the process runs with
RunKeys == {<<>>, <<<<"a">>, <<"B", " ">>>>}

PhotoOutcomes == {"sent", "not_found"}

Greeting == [type |-> "greeting"]

Photo(p) == [type |-> IF p = "sent" THEN "photo" ELSE "file_not_found"]

Recommendations == [type |-> "recommendations"]

WrongLength == [type |-> "wrong_length"]

AlreadySubmitted == [type |-> "already_submitted"]

ErrorNotice == [type |-> "error"]

ScoreReply(sc, key) ==
    [type |-> "score", correct |-> sc.correct_answers, total |-> Len(key),
     percentage |-> calculate_percentage(sc.correct_answers, Len(key)),
     errors |-> sc.incorrect_answers]

GateOnTestSent(state) == state = "test_sent"

\* the test of handle_message: user_states.get(user_id) == 'answers_submitted'
Gated(state) == state = "answers_submitted"

MarkTestSentOnly(states, u) == [v \in Users |-> IF v = u THEN "test_sent" ELSE "unset"]

\* user_states[user_id] = 'test_sent'
MarkTestSent(states, u) == [states EXCEPT ![u] = "test_sent"]

\* user_states[user_id] = 'answers_submitted'
MarkSubmitted(states, u) == [states EXCEPT ![u] = "answers_submitted"]

\* the first-attempt test of submit_answers and the record it stores
RecordFirstAttempt(stats, u, correct) ==
    IF ~DictHas(stats, IntKey(u)) \/ Len(DictGet(stats, IntKey(u)).scores) = 0
    THEN DictSet(stats, IntKey(u),
                 [first_name |-> Profile(u).first_name, last_name |-> Profile(u).last_name,
                  scores |-> <<correct>>])
    ELSE stats

\* sorted(..., key=sum of scores, reverse=True): stable, equal totals keep dict order
RECURSIVE SortedStats(_)
SortedStats(items) ==
    IF items = <<>> THEN <<>>
    ELSE LET rest == SortedStats(SubSeq(items, 1, Len(items) - 1))
             x == items[Len(items)]
             before == SelectSeq(rest, LAMBDA y : Sum(y.v.scores) >= Sum(x.v.scores))
             after == SelectSeq(rest, LAMBDA y : Sum(y.v.scores) < Sum(x.v.scores))
         IN  before \o <<x>> \o after

StatsLine(item, total_questions) ==
    [first_name |-> item.v.first_name, last_name |-> item.v.last_name,
     total |-> Sum(item.v.scores),
     percentage |-> calculate_percentage(Sum(item.v.scores), total_questions)]

StatsReply(stats, total_questions) ==
    LET sorted_stats == SortedStats(stats)
    IN  [type |-> "stats",
         lines |-> [i \in 1..Len(sorted_stats) |-> StatsLine(sorted_stats[i], total_questions)]]

\* the record the stats document holds for a user, as json.load gives it
PersistedRecord(file, u) ==
    IF file.kind = "ok" /\ DictHas(JsonLoadObject(file.users, <<>>), StrKey(u))
    THEN [has |-> TRUE, scores |-> DictGet(JsonLoadObject(file.users, <<>>), StrKey(u)).scores]
    ELSE [has |-> FALSE, scores |-> <<>>]

VARIABLES
    ANSWER_KEY,     \* the key loaded at start
    user_states,    \* user id -> session state ("unset": no entry)
    cached_stats,   \* None, or the stats dict
    stats_file,     \* stats.json
    excel_file,     \* student_stats.xlsx
    pending,        \* submit_answers coroutines suspended at the score reply
    replies,        \* what the last handler sent
    last,           \* the last handler run, its input and how it ended
    epoch,          \* process runs so far
    first_attempt,  \* per user, the count of the first submission of this run
                    \* to reach the stats step (-1: none yet)
    start_record,   \* per user, the record stats.json held when this run started
    answer_file,    \* answers.json
    key_result,     \* what load_answer_key gave
    submission,     \* a text to score
    score_result    \* what the scoring gave for it

vars ==
    <<ANSWER_KEY, user_states, cached_stats, stats_file, excel_file, pending, replies,
      last, epoch, first_attempt, start_record, answer_file, key_result, submission,
      score_result>>

pureVars == <<answer_file, key_result, submission, score_result>>

NotLoaded == [loaded |-> FALSE, raised |-> FALSE, answers |-> <<>>]

NotScored == [scored |-> FALSE, correct_answers |-> 0, incorrect_answers |-> <<>>]

\* op: the handler; text: the message text; outcome: how the handler ended;
\* load: what load_stats did; write: what the write of save_stats did
Event(op, u, text, outcome, load, write) ==
    [op |-> op, user |-> u, text |-> text, outcome |-> outcome, load |-> load,
     write |-> write]

\* stats.json before the first run: absent, or put there by hand
FirstStartFiles == {StatsFile(k, <<>>) : k \in FileKinds}

\* stats.json as a run may find it: the above, or as an earlier run wrote it
\* for user 1
InitialStatsFiles ==
    FirstStartFiles \cup
        {StatsFile("ok", <<[k |-> StrKey(1),
                            v |-> [first_name |-> Profile(1).first_name,
                                   last_name |-> Profile(1).last_name,
                                   scores |-> <<1>>]]>>)}

NoExport == ExcelFile(FALSE, FALSE, <<>>)

\* the module state once the file has been imported, with stats.json among files
InitFrom(files) ==
    /\ ANSWER_KEY \in RunKeys
    /\ user_states = [u \in Users |-> "unset"]
    /\ cached_stats = NoneCache
    /\ stats_file \in files
    /\ excel_file = NoExport
    /\ pending = <<>>
    /\ replies = <<>>
    /\ last = Event("init", 0, <<>>, "ok", "none", "none")
    /\ epoch = 0
    /\ first_attempt = [u \in Users |-> -1]
    /\ start_record = [u \in Users |-> PersistedRecord(stats_file, u)]
    /\ answer_file = AnswerFile("list", [i \in 1..Len(ANSWER_KEY) |-> StrElem(ANSWER_KEY[i])])
    /\ key_result = [loaded |-> TRUE, raised |-> FALSE, answers |-> ANSWER_KEY]
    /\ submission = <<>>
    /\ score_result = NotScored

Init == InitFrom(InitialStatsFiles)

\* /start
start(u) ==
    /\ replies' = <<Greeting>>
    /\ last' = Event("start", u, <<>>, "ok", "none", "none")
    /\ UNCHANGED <<ANSWER_KEY, user_states, cached_stats, stats_file, excel_file, pending,
                   epoch, first_attempt, start_record, pureVars>>

\* /get_test
send_test(u, p1, p2) ==
    /\ user_states' = MarkTestSent(user_states, u)
    /\ replies' = <<Photo(p1), Photo(p2), Recommendations>>
    /\ last' = Event("get_test", u, <<>>, "ok", "none", "none")
    /\ UNCHANGED <<ANSWER_KEY, cached_stats, stats_file, excel_file, pending, epoch,
                   first_attempt, start_record, pureVars>>

\* /show_stats
show_stats(u) ==
    LET ld == load_stats(cached_stats, stats_file)
    IN  /\ cached_stats' = ld.cache
        /\ IF ld.raised
           THEN /\ replies' = <<>>
                /\ last' = Event("show_stats", u, <<>>, "error_uncaught", ld.how, "none")
           ELSE /\ replies' = <<StatsReply(ld.cache.items, Len(ANSWER_KEY))>>
                /\ last' = Event("show_stats", u, <<>>, "ok", ld.how, "none")
        /\ UNCHANGED <<ANSWER_KEY, user_states, stats_file, excel_file, pending, epoch,
                       first_attempt, start_record, pureVars>>

\* submit_answers from the return of its score reply on: load_stats, the
\* first-attempt test, save_stats, save_stats_to_excel and the state mark, with
\* the except clause of handle_message around them; sent is what the handler
\* has replied so far
StatsStep(op, u, text, correct, w, x, sent) ==
    LET ld == load_stats(cached_stats, stats_file)
        stats == RecordFirstAttempt(ld.cache.items, u, correct)
        sv == save_stats(stats, stats_file, w)
    IN  /\ first_attempt' =
              IF first_attempt[u] = -1 THEN [first_attempt EXCEPT ![u] = correct]
              ELSE first_attempt
        /\ IF ld.raised
           THEN /\ cached_stats' = ld.cache
                /\ replies' = Append(sent, ErrorNotice)
                /\ last' = Event(op, u, text, "error_caught", ld.how, "none")
                /\ UNCHANGED <<stats_file, excel_file, user_states>>
           ELSE IF sv.raised
           THEN /\ cached_stats' = sv.cache
                /\ stats_file' = sv.file
                /\ replies' = Append(sent, ErrorNotice)
                /\ last' = Event(op, u, text, "error_caught", ld.how, w)
                /\ UNCHANGED <<excel_file, user_states>>
           ELSE /\ cached_stats' = sv.cache
                /\ stats_file' = sv.file
                /\ excel_file' = save_stats_to_excel(stats, excel_file, x)
                /\ user_states' = MarkSubmitted(user_states, u)
                /\ replies' = sent
                /\ last' = Event(op, u, text, "ok", ld.how, w)

\* a free-text message handled with no other handler in between:
\* handle_message and the submit_answers it calls
handle_message(u, text) ==
    LET user_answers == ListOfChars(Strip(text))
        sc == Score(user_answers, ANSWER_KEY)
    IN  /\ IF Gated(user_states[u])
           THEN /\ replies' = <<AlreadySubmitted>>
                /\ last' = Event("message", u, text, "gated", "none", "none")
                /\ UNCHANGED <<user_states, cached_stats, stats_file, excel_file,
                               first_attempt>>
           ELSE IF ~LengthOk(user_answers, ANSWER_KEY)
           THEN /\ replies' = <<WrongLength>>
                /\ last' = Event("message", u, text, "rejected", "none", "none")
                /\ UNCHANGED <<user_states, cached_stats, stats_file, excel_file,
                               first_attempt>>
           ELSE \E w \in WriteOutcomes, x \in ExportOutcomes :
                    StatsStep("message", u, text, sc.correct_answers, w, x,
                              <<ScoreReply(sc, ANSWER_KEY)>>)
        /\ UNCHANGED <<ANSWER_KEY, pending, epoch, start_record, pureVars>>

Next ==
    \/ \E u \in Users : start(u)
    \/ \E u \in Users, p1 \in PhotoOutcomes, p2 \in PhotoOutcomes : send_test(u, p1, p2)
    \/ \E u \in Users : show_stats(u)
    \/ \E u \in Users, text \in Messages : handle_message(u, text)

\* one run of the process, handlers one at a time
Spec == Init /\ [][Next]_vars

\* ------------------------------------------------------------- restarts
InitFirstStart == InitFrom(FirstStartFiles)

\* the process is stopped and started again: the module state is rebuilt, the
\* files stay
Restart ==
    /\ epoch < MaxRestarts
    /\ epoch' = epoch + 1
    /\ user_states' = [u \in Users |-> "unset"]
    /\ cached_stats' = NoneCache
    /\ pending' = <<>>
    /\ replies' = <<>>
    /\ last' = Event("restart", 0, <<>>, "ok", "none", "none")
    /\ first_attempt' = [u \in Users |-> -1]
    /\ start_record' = [u \in Users |-> PersistedRecord(stats_file, u)]
    /\ UNCHANGED <<ANSWER_KEY, stats_file, excel_file, pureVars>>

NextRestart ==
    \/ \E u \in Users : start(u)
    \/ \E u \in Users, p1 \in PhotoOutcomes, p2 \in PhotoOutcomes : send_test(u, p1, p2)
    \/ \E u \in Users : show_stats(u)
    \/ \E u \in Users, text \in Messages : handle_message(u, text)
    \/ Restart

\* runs of the process one after the other, from the first start on
SpecRestart == InitFirstStart /\ [][NextRestart]_vars

\* ------------------------------------------- handlers that interleave
\* handle_message up to the first await that code follows: the gate, the
\* length check, the scoring and the score reply
handle_message_begin(u, text) ==
    LET user_answers == ListOfChars(Strip(text))
        sc == Score(user_answers, ANSWER_KEY)
    IN  /\ IF Gated(user_states[u])
           THEN /\ replies' = <<AlreadySubmitted>>
                /\ last' = Event("message", u, text, "gated", "none", "none")
                /\ UNCHANGED pending
           ELSE IF ~LengthOk(user_answers, ANSWER_KEY)
           THEN /\ replies' = <<WrongLength>>
                /\ last' = Event("message", u, text, "rejected", "none", "none")
                /\ UNCHANGED pending
           ELSE /\ Len(pending) < MaxTasks
                /\ pending' = Append(pending, [user |-> u, correct |-> sc.correct_answers])
                /\ replies' = <<ScoreReply(sc, ANSWER_KEY)>>
                /\ last' = Event("message", u, text, "awaiting", "none", "none")
        /\ UNCHANGED <<ANSWER_KEY, user_states, cached_stats, stats_file, excel_file, epoch,
                       first_attempt, start_record, pureVars>>

\* the i-th suspended submit_answers goes on after its score reply
handle_message_resume(i) ==
    /\ i \in 1..Len(pending)
    /\ \E w \in WriteOutcomes, x \in ExportOutcomes :
          StatsStep("resume", pending[i].user, <<>>, pending[i].correct, w, x, <<>>)
    /\ pending' = SubSeq(pending, 1, i - 1) \o SubSeq(pending, i + 1, Len(pending))
    /\ UNCHANGED <<ANSWER_KEY, epoch, start_record, pureVars>>

NextAsync ==
    \/ \E u \in Users, p1 \in PhotoOutcomes, p2 \in PhotoOutcomes : send_test(u, p1, p2)
    \/ \E u \in Users : show_stats(u)
    \/ \E u \in Users, text \in Messages : handle_message_begin(u, text)
    \/ \E i \in 1..MaxTasks : handle_message_resume(i)

SpecAsync == Init /\ [][NextAsync]_vars

\* ------------------------------------------------- the scoring on its own
InitScore ==
    /\ ANSWER_KEY \in AnswerKeys
    /\ submission \in Texts
    /\ score_result = NotScored
    /\ user_states = [u \in Users |-> "unset"]
    /\ cached_stats = NoneCache
    /\ stats_file = StatsFile("missing", <<>>)
    /\ excel_file = NoExport
    /\ pending = <<>>
    /\ replies = <<>>
    /\ last = Event("init", 0, <<>>, "ok", "none", "none")
    /\ epoch = 0
    /\ first_attempt = [u \in Users |-> -1]
    /\ start_record = [u \in Users |-> PersistedRecord(stats_file, u)]
    /\ answer_file = AnswerFile("list", [i \in 1..Len(ANSWER_KEY) |-> StrElem(ANSWER_KEY[i])])
    /\ key_result = [loaded |-> TRUE, raised |-> FALSE, answers |-> ANSWER_KEY]

\* lines 148-162 of submit_answers on the text: strip, list, length check, loop
score_submission ==
    LET user_answers == ListOfChars(Strip(submission))
        sc == Score(user_answers, ANSWER_KEY)
    IN  /\ ~score_result.scored
        /\ LengthOk(user_answers, ANSWER_KEY)
        /\ score_result' = [scored |-> TRUE, correct_answers |-> sc.correct_answers,
                            incorrect_answers |-> sc.incorrect_answers]
        /\ UNCHANGED <<ANSWER_KEY, user_states, cached_stats, stats_file, excel_file,
                       pending, replies, last, epoch, first_attempt, start_record,
                       answer_file, key_result, submission>>

SpecScore == InitScore /\ [][score_submission]_vars

\* ------------------------------------------------ the key load on its own
InitKey ==
    /\ answer_file \in AnswerFiles
    /\ key_result = NotLoaded
    /\ ANSWER_KEY = <<>>
    /\ submission = <<>>
    /\ score_result = NotScored
    /\ user_states = [u \in Users |-> "unset"]
    /\ cached_stats = NoneCache
    /\ stats_file = StatsFile("missing", <<>>)
    /\ excel_file = NoExport
    /\ pending = <<>>
    /\ replies = <<>>
    /\ last = Event("init", 0, <<>>, "ok", "none", "none")
    /\ epoch = 0
    /\ first_attempt = [u \in Users |-> -1]
    /\ start_record = [u \in Users |-> PersistedRecord(stats_file, u)]

\* ANSWER_KEY = load_answer_key(), at import
load_key ==
    LET r == load_answer_key(answer_file)
    IN  /\ ~key_result.loaded
        /\ key_result' = [loaded |-> TRUE, raised |-> r.raised, answers |-> r.answers]
        /\ ANSWER_KEY' = r.answers
        /\ UNCHANGED <<user_states, cached_stats, stats_file, excel_file, pending, replies,
                       last, epoch, first_attempt, start_record, answer_file, submission,
                       score_result>>

SpecKey == InitKey /\ [][load_key]_vars

\* ------------------------------------------------------------- properties
Rank(state) ==
    CASE state = "unset" -> 0
      [] state = "test_sent" -> 1
      [] state = "answers_submitted" -> 2

\* the cache items whose key names user u, as an int or as a string
ItemsOf(items, u) == SelectSeq(items, LAMBDA it : it.k.v = u)

\* C5: a submission as long as the key gets as correct count the number of
\* positions whose normalized character equals the normalized key entry, and
\* as errors the other positions, ascending and 1-based, each with the
\* character as submitted; the two add up to the key's length.
C5_ScoreResult ==
    score_result.scored =>
        LET user_answers == ListOfChars(Strip(submission))
            n == Len(ANSWER_KEY)
            right == {i \in 1..n : normalize_answer(user_answers[i]) = normalize_answer(ANSWER_KEY[i])}
            errors == score_result.incorrect_answers
        IN  /\ Len(user_answers) = n
            /\ score_result.correct_answers = Cardinality(right)
            /\ {errors[j][1] : j \in 1..Len(errors)} = (1..n) \ right
            /\ \A j \in 1..Len(errors) : errors[j][2] = user_answers[errors[j][1]]
            /\ \A j \in 1..(Len(errors) - 1) : errors[j][1] < errors[j + 1][1]
            /\ score_result.correct_answers + Len(errors) = n

\* key ["a","b","c"] and submission "abd": 2 correct, errors [(3,"d")]
C5_Witness ==
    /\ ANSWER_KEY = <<<<"a">>, <<"b">>, <<"c">>>>
    /\ submission = <<"a", "b", "d">>
    /\ score_result = [scored |-> TRUE, correct_answers |-> 2,
                       incorrect_answers |-> <<<<3, <<"d">>>>>>]

\* the answers.json shapes load_answer_key is to return the list for
WellFormedAnswers(file) ==
    file.kind = "list" /\ \A i \in 1..Len(file.answers) : file.answers[i].is_str

\* C7: the answer-key load raises for no document: it gives the strings under
\* "answers" for a well-formed document and the empty sequence for every
\* other one, a top-level value that is no object included.
C7_KeyLoadNeverRaises ==
    key_result.loaded =>
        /\ ~key_result.raised
        /\ key_result.answers =
              IF WellFormedAnswers(answer_file)
              THEN [i \in 1..Len(answer_file.answers) |-> answer_file.answers[i].s]
              ELSE <<>>

\* C6: load_stats raises for no stats document: a handler that called it got
\* the cache, or the document's records, or the empty mapping, and the cache
\* is populated afterwards.
C6_StatsLoadNeverRaises ==
    /\ last.load # "raised"
    /\ last.load \in {"cache", "file", "default"} => ~cached_stats.is_none

\* C1: in a run without interleaving, a user with no record at the start of
\* the run whose first length-valid submission scored c1 has the record
\* scores == [c1] in the cache from then on.
C1_FirstAttemptOnly ==
    \A u \in Users :
        (~start_record[u].has /\ first_attempt[u] # -1) =>
            /\ ~cached_stats.is_none
            /\ DictHas(cached_stats.items, IntKey(u))
            /\ DictGet(cached_stats.items, IntKey(u)).scores = <<first_attempt[u]>>

\* C4: after a restart, a user whose record was in stats.json when the run
\* started keeps that
\* score over a further length-valid submission: the cache holds one record
\* for the user, with that score, and so does the document when re-written.
C4_PersistedAcrossRestart ==
    \A u \in Users :
        (epoch > 0 /\ start_record[u].has /\ first_attempt[u] # -1 /\ ~cached_stats.is_none) =>
            /\ Len(ItemsOf(cached_stats.items, u)) = 1
            /\ ItemsOf(cached_stats.items, u)[1].v.scores = start_record[u].scores
            /\ stats_file.kind = "ok" =>
                  /\ Len(ItemsOf(stats_file.users, u)) = 1
                  /\ PersistedRecord(stats_file, u).scores = start_record[u].scores

\* C10: with submissions interleaving at their awaits, a user with no record
\* at the start of the run gets exactly one record, holding the one count of
\* the submission that reached the stats step first.
C10_OneRecordUnderInterleaving ==
    \A u \in Users :
        (~start_record[u].has /\ first_attempt[u] # -1) =>
            /\ ~cached_stats.is_none
            /\ Len(ItemsOf(cached_stats.items, u)) = 1
            /\ ItemsOf(cached_stats.items, u)[1].v.scores = <<first_attempt[u]>>

\* C2: a free-text message from a user whose state is answers_submitted gets
\* the "already submitted" notice as its only reply and runs no scoring; the
\* cache, stats.json, the export and every session state stay as they were.
C2_SessionGate ==
    [][(last'.op = "message" /\ user_states[last'.user] = "answers_submitted") =>
          /\ replies' = <<AlreadySubmitted>>
          /\ last'.outcome = "gated"
          /\ UNCHANGED <<cached_stats, stats_file, excel_file, user_states, first_attempt>>
      ]_vars

\* a recorded user in state answers_submitted has just been turned away
C2_Witness ==
    /\ last.op = "message" /\ last.outcome = "gated"
    /\ user_states[last.user] = "answers_submitted"
    /\ replies = <<AlreadySubmitted>>
    /\ ~cached_stats.is_none /\ DictHas(cached_stats.items, IntKey(last.user))
    /\ Len(Strip(last.text)) = Len(ANSWER_KEY)

\* C3: a message that reaches submit_answers with a stripped length other than
\* the key's gets the wrong-length rejection as its only reply, runs no
\* scoring, and leaves the cache, stats.json, the export and every session
\* state (the sender's too) as they were.
C3_LengthMismatchRejected ==
    [][(/\ last'.op = "message"
        /\ user_states[last'.user] # "answers_submitted"
        /\ Len(Strip(last'.text)) # Len(ANSWER_KEY)) =>
          /\ replies' = <<WrongLength>>
          /\ last'.outcome = "rejected"
          /\ UNCHANGED <<cached_stats, stats_file, excel_file, user_states, first_attempt>>
      ]_vars

\* a user who asked for the test has just been rejected for the length, with
\* another user's record in the store
C3_Witness ==
    /\ last.op = "message" /\ last.outcome = "rejected"
    /\ Len(Strip(last.text)) # Len(ANSWER_KEY)
    /\ user_states[last.user] = "test_sent"
    /\ replies = <<WrongLength>>
    /\ ~cached_stats.is_none /\ cached_stats.items # <<>>
    /\ excel_file.exists

\* the stats dict load_stats is to give in the state before a step
StatsBefore ==
    IF ~cached_stats.is_none THEN cached_stats.items
    ELSE IF stats_file.kind = "ok" THEN JsonLoadObject(stats_file.users, <<>>)
    ELSE <<>>

\* C8: when the write of stats.json fails in save_stats, the submission
\* handler still ends normally: the only reply is the score, the sender is
\* marked answers_submitted, the cache holds the new stats, and stats.json is
\* as it was or cut short.
C8_SaveUnderWriteFailure ==
    [][(last'.op = "message" /\ last'.write \in {"open_fails", "write_fails"}) =>
          LET u == last'.user
              rec == [first_name |-> Profile(u).first_name,
                      last_name |-> Profile(u).last_name,
                      scores |-> <<replies'[1].correct>>]
          IN  /\ last'.outcome = "ok"
              /\ Len(replies') = 1
              /\ replies'[1].type = "score"
              /\ user_states' = [user_states EXCEPT ![u] = "answers_submitted"]
              /\ ~cached_stats'.is_none
              /\ cached_stats'.items =
                    IF DictHas(StatsBefore, IntKey(u)) THEN StatsBefore
                    ELSE Append(StatsBefore, [k |-> IntKey(u), v |-> rec])
              /\ stats_file' =
                    IF last'.write = "open_fails" THEN stats_file
                    ELSE StatsFile("badjson", <<>>)
      ]_vars

\* a first attempt whose write failed: the cache has the record, stats.json
\* does not
C8_Witness ==
    /\ last.op = "message" /\ last.write \in {"open_fails", "write_fails"}
    /\ last.outcome = "ok"
    /\ user_states[last.user] = "answers_submitted"
    /\ DictHas(cached_stats.items, IntKey(last.user))
    /\ ~PersistedRecord(stats_file, last.user).has
    /\ replies # <<>> /\ replies[1].type = "score"

\* C9 as stated: within a run no event lowers a user's session state along
\* unset < test_sent < answers_submitted.
C9_OneDirectional ==
    [][epoch' = epoch => \A u \in Users : Rank(user_states'[u]) >= Rank(user_states[u])]_vars

\* C9 as amended: within a run no user's state returns to unset, and the one
\* step that lowers a state is that user's own /get_test, from
\* answers_submitted to test_sent.
C9_OnlyGetTestLowers ==
    [][epoch' = epoch =>
          \A u \in Users :
              /\ user_states[u] # "unset" => user_states'[u] # "unset"
              /\ Rank(user_states'[u]) < Rank(user_states[u]) =>
                    /\ last'.op = "get_test" /\ last'.user = u
                    /\ user_states[u] = "answers_submitted"
                    /\ user_states'[u] = "test_sent"
      ]_vars

\* a recorded user, marked answers_submitted by the stats step, is back in
\* test_sent after /get_test, with another user past unset
C9_Witness ==
    /\ last.op = "get_test"
    /\ user_states[last.user] = "test_sent"
    /\ ~cached_stats.is_none /\ DictHas(cached_stats.items, IntKey(last.user))
    /\ \E v \in Users \ {last.user} : user_states[v] # "unset"

====
